---- MODULE Spec2Model ----
(***************************************************************************)
(* Model of src/minesweeper.py: the Sentence class, the MinesweeperAI      *)
(* knowledge base with its propagation loop, and the two move queries.     *)
(* Cells are pairs <<i, j>> with 0 <= i < height and 0 <= j < width.       *)
(* A Sentence is a record [cells |-> set of cells, count |-> integer];     *)
(* the knowledge base is a sequence of sentences (a Python list).          *)
(***************************************************************************)
EXTENDS Integers, FiniteSets, Sequences, TLC

VARIABLES height, width, board, moves_made, mines, safes, knowledge,
          pc, knowledge_changed, inferred, call, ret, ncalls

vars == <<height, width, board, moves_made, mines, safes, knowledge,
          pc, knowledge_changed, inferred, call, ret, ncalls>>

solver == <<moves_made, mines, safes, knowledge>>

\* inferred is the set of the sentences that subset inference has appended
\* (line 221) since the latest add_knowledge call began

\* ------------------------------------------------------------------ bounds
\* the largest number of cells of a grid
MaxCells == 6

\* the largest number of mutating calls made through the solver's interface
MaxCalls == 2

\* the total number of mines make_random_move assumes (line 259)
AssumedMines == 8

\* the "no move" result of the two move queries
None == << >>

\* the record of the latest call: its operation and arguments, the sentence
\* add_knowledge built (line 188), safes and mines as they were when the call
\* was made, and the list make_random_move chose from (line 272)
NoCall == [op |-> "none", cell |-> None, count |-> 0,
           sent |-> [cells |-> {}, count |-> 0],
           safes0 |-> {}, mines0 |-> {}, choices |-> {}]

\* ------------------------------------------------------------- the grid
Grid(h, w) == (0 .. h - 1) \X (0 .. w - 1)

Cells == Grid(height, width)

\* the in-bounds cells within one row and column of cell, cell excluded
Neighbours(cell) ==
    { c \in Cells : /\ c # cell
                    /\ c[1] \in (cell[1] - 1) .. (cell[1] + 1)
                    /\ c[2] \in (cell[2] - 1) .. (cell[2] + 1) }

\* Minesweeper.nearby_mines on the ground-truth layout
nearby_mines(cell) == Cardinality(Neighbours(cell) \cap board)

\* ------------------------------------------------------------- Sentence
Sentence(cells, count) == [cells |-> cells, count |-> count]

\* slip: strict comparison of the number of cells with the count
known_mines_strict(s) ==
    IF Cardinality(s.cells) > s.count /\ s.count # 0 THEN s.cells ELSE {}

known_mines(s) ==
    IF Cardinality(s.cells) = s.count /\ s.count # 0 THEN s.cells ELSE {}

\* slip: the condition of known_mines copied without the count test
known_safes_as_mines(s) ==
    IF Cardinality(s.cells) = s.count THEN s.cells ELSE {}

known_safes(s) == IF s.count = 0 THEN s.cells ELSE {}

Max(a, b) == IF a >= b THEN a ELSE b

\* slip: the count is decremented whether or not the cell is in the sentence
Sentence_mark_mine_unguarded(s, cell) ==
    Sentence(s.cells \ {cell}, Max(0, s.count - 1))

Sentence_mark_mine(s, cell) ==
    IF cell \in s.cells
    THEN Sentence(s.cells \ {cell}, Max(0, s.count - 1))
    ELSE s

Sentence_mark_safe(s, cell) == Sentence(s.cells \ {cell}, s.count)

\* ------------------------------------------- MinesweeperAI mark primitives
\* The solver state threaded through a handler is a record
\* [safes, mines, knowledge].
\* slip: the cell is added to mines but the sentences are not narrowed
AI_mark_mine_no_narrow(st, cell) == [st EXCEPT !.mines = @ \cup {cell}]

AI_mark_mine(st, cell) ==
    [st EXCEPT !.mines = @ \cup {cell},
               !.knowledge = [i \in DOMAIN @ |-> Sentence_mark_mine(@[i], cell)]]

\* slip: safes is overwritten instead of extended
AI_mark_safe_overwrites(st, cell) ==
    [st EXCEPT !.safes = {cell},
               !.knowledge = [i \in DOMAIN @ |-> Sentence_mark_safe(@[i], cell)]]

\* slip: the sentences are narrowed but the cell is not added to safes
AI_mark_safe_narrow_only(st, cell) ==
    [st EXCEPT !.knowledge = [i \in DOMAIN @ |-> Sentence_mark_safe(@[i], cell)]]

AI_mark_safe(st, cell) ==
    [st EXCEPT !.safes = @ \cup {cell},
               !.knowledge = [i \in DOMAIN @ |-> Sentence_mark_safe(@[i], cell)]]

\* "for safe in S: self.mark_safe(safe)".  The iteration order of a Python
\* set is not specified; marks of distinct cells commute, so any order
\* gives the same result.
RECURSIVE MarkSafes(_, _)
MarkSafes(st, S) ==
    IF S = {} THEN st
    ELSE LET c == CHOOSE x \in S : TRUE
         IN  MarkSafes(AI_mark_safe(st, c), S \ {c})

RECURSIVE MarkMines(_, _)
MarkMines(st, S) ==
    IF S = {} THEN st
    ELSE LET c == CHOOSE x \in S : TRUE
         IN  MarkMines(AI_mark_mine(st, c), S \ {c})

Range(seq) == { seq[i] : i \in DOMAIN seq }

\* slip: nothing is pruned
HasCells_all(s) == TRUE

HasCells(s) == s.cells # {}

\* ------------------------------------------ subset inference (lines 213-223)
\* The inner loop walks the slice self.knowledge[i+1:], a copy taken when
\* the outer loop reaches index i, so it stops at n, the length at that
\* moment; the outer loop walks the live list and sees appended sentences.
\* Indices are 1-based here.  An intermediate value that is used more than
\* once is bound as the single element of a set, so that it is evaluated once.
\* slip: an appended sentence does not set knowledge_changed
RECURSIVE InnerLoop_unflagged(_, _, _, _, _)
InnerLoop_unflagged(kn, i, j, n, changed) ==
    IF j > n THEN [knowledge |-> kn, changed |-> changed]
    ELSE LET sentence_1 == kn[i]
             sentence_2 == kn[j]
             new_sentence == Sentence(sentence_2.cells \ sentence_1.cells,
                                      sentence_2.count - sentence_1.count)
         IN  IF /\ sentence_1.cells # {}
                /\ sentence_1.cells \subseteq sentence_2.cells
                /\ new_sentence \notin Range(kn)
             THEN CHOOSE res \in { InnerLoop_unflagged(kn2, i, j + 1, n, changed) :
                                      kn2 \in {Append(kn, new_sentence)} } : TRUE
             ELSE InnerLoop_unflagged(kn, i, j + 1, n, changed)

RECURSIVE InnerLoop(_, _, _, _, _)
InnerLoop(kn, i, j, n, changed) ==
    IF j > n THEN [knowledge |-> kn, changed |-> changed]
    ELSE LET sentence_1 == kn[i]
             sentence_2 == kn[j]
             new_sentence == Sentence(sentence_2.cells \ sentence_1.cells,
                                      sentence_2.count - sentence_1.count)
         IN  IF /\ sentence_1.cells # {}
                /\ sentence_1.cells \subseteq sentence_2.cells
                /\ new_sentence \notin Range(kn)
             THEN CHOOSE res \in { InnerLoop(kn2, i, j + 1, n, TRUE) :
                                      kn2 \in {Append(kn, new_sentence)} } : TRUE
             ELSE InnerLoop(kn, i, j + 1, n, changed)

RECURSIVE OuterLoop(_, _, _)
OuterLoop(kn, i, changed) ==
    IF i > Len(kn) THEN [knowledge |-> kn, changed |-> changed]
    ELSE CHOOSE res \in { OuterLoop(r.knowledge, i + 1, r.changed) :
                             r \in {InnerLoop(kn, i, i + 1, Len(kn), changed)} } : TRUE

\* ------------------------------- one iteration of the while loop (194-223)
\* slip: marking a mine does not set knowledge_changed
Resolve_mines_unflagged(st) ==
    LET ksafes == UNION { known_safes(st.knowledge[i]) : i \in DOMAIN st.knowledge }
        kmines == UNION { known_mines(st.knowledge[i]) : i \in DOMAIN st.knowledge }
        new_safes == ksafes \ st.safes
        new_mines == kmines \ st.mines
    IN  [st |-> MarkMines(MarkSafes(st, new_safes), new_mines),
         changed |-> new_safes # {}]

\* lines 194-207: aggregate the known safes and mines, then mark them
Resolve(st) ==
    LET ksafes == UNION { known_safes(st.knowledge[i]) : i \in DOMAIN st.knowledge }
        kmines == UNION { known_mines(st.knowledge[i]) : i \in DOMAIN st.knowledge }
        new_safes == ksafes \ st.safes
        \* self.mines is read after the safes are marked; mark_safe leaves it as is
        new_mines == kmines \ st.mines
    IN  [st |-> MarkMines(MarkSafes(st, new_safes), new_mines),
         changed |-> new_safes # {} \/ new_mines # {}]

\* lines 210-223: prune the empty sentences, then infer; added is the list
\* of the sentences that line 221 appended
PruneAndInfer(st, changed) ==
    LET pruned == SelectSeq(st.knowledge, HasCells)
    IN  CHOOSE res \in { [safes |-> st.safes, mines |-> st.mines,
                          knowledge |-> r.knowledge, changed |-> r.changed,
                          added |-> SubSeq(r.knowledge, Len(pruned) + 1, Len(r.knowledge))] :
                           r \in {OuterLoop(pruned, 1, changed)} } : TRUE

PassOf(st) ==
    CHOOSE res \in { PruneAndInfer(r.st, r.changed) : r \in {Resolve(st)} } : TRUE

\* --------------------------- add_knowledge up to the loop (lines 173-191)
new_sentence_cells(st, cell) ==
    { c \in Neighbours(cell) : c \notin st.safes /\ c \notin st.mines }

\* line 186: the sum runs over new_sentence_cells, which holds no known mine
adjusted_count(st, cell, count) ==
    count - Cardinality(new_sentence_cells(st, cell) \cap st.mines)

Here == [safes |-> safes, mines |-> mines, knowledge |-> knowledge]

add_knowledge(cell, count) ==
    /\ pc = "idle"
    /\ LET st == AI_mark_safe(Here, cell)
           sent == Sentence(new_sentence_cells(st, cell),
                            adjusted_count(st, cell, count))
       IN  /\ moves_made' = moves_made \cup {cell}
           /\ safes' = st.safes
           /\ mines' = st.mines
           /\ knowledge' = Append(st.knowledge, sent)
           /\ call' = [NoCall EXCEPT !.op = "add_knowledge", !.cell = cell,
                                      !.count = count, !.sent = sent,
                                      !.safes0 = safes, !.mines0 = mines]
    /\ pc' = "while"
    /\ knowledge_changed' = TRUE
    /\ inferred' = {}
    /\ ret' = None
    /\ ncalls' = ncalls + 1
    /\ UNCHANGED <<height, width, board>>

\* lines 192-193: the test of "while knowledge_changed"; the flag is reset on
\* entering the body, and the call returns when the test fails
WhileTest ==
    /\ pc = "while"
    /\ pc' = IF knowledge_changed THEN "pass" ELSE "idle"
    /\ knowledge_changed' = FALSE
    /\ UNCHANGED <<height, width, board, solver, inferred, call, ret, ncalls>>

\* lines 194-223: the body of the loop
Pass ==
    /\ pc = "pass"
    /\ \E r \in {PassOf(Here)} :
           /\ safes' = r.safes
           /\ mines' = r.mines
           /\ knowledge' = r.knowledge
           /\ knowledge_changed' = r.changed
           /\ inferred' = inferred \cup Range(r.added)
    /\ pc' = "while"
    /\ UNCHANGED <<height, width, board, moves_made, call, ret, ncalls>>

Propagate == WhileTest \/ Pass

\* ------------------------------------- the public mark_mine and mark_safe
mark_mine(cell) ==
    /\ pc = "idle"
    /\ LET st == AI_mark_mine(Here, cell)
       IN  /\ mines' = st.mines
           /\ knowledge' = st.knowledge
    /\ call' = [NoCall EXCEPT !.op = "mark_mine", !.cell = cell,
                              !.safes0 = safes, !.mines0 = mines]
    /\ ret' = None
    /\ ncalls' = ncalls + 1
    /\ UNCHANGED <<height, width, board, moves_made, safes, pc, knowledge_changed, inferred>>

mark_safe(cell) ==
    /\ pc = "idle"
    /\ LET st == AI_mark_safe(Here, cell)
       IN  /\ safes' = st.safes
           /\ knowledge' = st.knowledge
    /\ call' = [NoCall EXCEPT !.op = "mark_safe", !.cell = cell,
                              !.safes0 = safes, !.mines0 = mines]
    /\ ret' = None
    /\ ncalls' = ncalls + 1
    /\ UNCHANGED <<height, width, board, moves_made, mines, pc, knowledge_changed, inferred>>

\* ------------------------------------------- make_safe_move (lines 232-241)
\* slip: the moves already made are not removed
safe_moves_all(sf, mm) == sf

safe_moves(sf, mm) == sf \ mm

\* next(iter(safe_moves)): which element comes first is up to the set's
\* internal order, so any element may be returned
make_safe_move ==
    /\ pc = "idle"
    /\ IF safe_moves(safes, moves_made) # {}
       THEN ret' \in safe_moves(safes, moves_made)
       ELSE ret' = None
    /\ call' = [NoCall EXCEPT !.op = "make_safe_move",
                              !.safes0 = safes, !.mines0 = mines]
    /\ UNCHANGED <<height, width, board, solver, pc, knowledge_changed, inferred, ncalls>>

\* ----------------------------------------- make_random_move (lines 243-274)
\* slip: the known mines are not removed
remaining_with_mines(mm, mn) == Cells \ mm

remaining(mm, mn) == (Cells \ mm) \ mn

\* a risk is a fraction [num, den] with den > 0; fractions are compared by
\* cross-multiplication, which agrees with the comparison of the quotients
Frac(n, d) == [num |-> n, den |-> d]

FracLE(a, b) == a.num * b.den <= b.num * a.den

\* base_probability for an assumed total of `total` mines
base_probability(total, mm, mn) ==
    Frac(total - Cardinality(mn), Cardinality(remaining(mm, mn)))

\* max_risk of one cell: the largest of the base probability and of
\* count / len(cells) over the sentences that contain the cell
max_risk(cell, total, mm, mn, kn) ==
    LET risks == {base_probability(total, mm, mn)} \cup
                 { Frac(kn[i].count, Cardinality(kn[i].cells)) :
                     i \in { k \in DOMAIN kn : cell \in kn[k].cells } }
    IN  CHOOSE r \in risks : \A q \in risks : FracLE(q, r)

\* the cells whose risk equals the minimum of cell_risks
safest_moves(total, mm, mn, kn) ==
    LET cell_risks == [c \in remaining(mm, mn) |-> max_risk(c, total, mm, mn, kn)]
    IN  { c \in remaining(mm, mn) :
            \A d \in remaining(mm, mn) : FracLE(cell_risks[c], cell_risks[d]) }

make_random_move ==
    /\ pc = "idle"
    /\ IF remaining(moves_made, mines) = {}
       THEN /\ ret' = None
            /\ call' = [NoCall EXCEPT !.op = "make_random_move",
                                      !.safes0 = safes, !.mines0 = mines]
       ELSE LET choices == safest_moves(AssumedMines, moves_made, mines, knowledge)
            IN  /\ ret' \in choices
                /\ call' = [NoCall EXCEPT !.op = "make_random_move",
                                          !.safes0 = safes, !.mines0 = mines,
                                          !.choices = choices]
    /\ UNCHANGED <<height, width, board, solver, pc, knowledge_changed, inferred, ncalls>>

\* ------------------------------------------------------- specifications
\* MinesweeperAI.__init__ on a grid of any size up to the bounds
InitSolver ==
    /\ height \in 1 .. MaxCells
    /\ width \in 1 .. MaxCells
    /\ height * width <= MaxCells
    /\ moves_made = {}
    /\ mines = {}
    /\ safes = {}
    /\ knowledge = << >>
    /\ pc = "idle"
    /\ knowledge_changed = FALSE
    /\ inferred = {}
    /\ call = NoCall
    /\ ret = None
    /\ ncalls = 0

\* a game: Minesweeper.__init__ lays the mines out on the board
Init ==
    /\ InitSolver
    /\ board \in SUBSET Grid(height, width)

\* the caller reveals a cell that is not a mine and was not revealed before,
\* and reports Minesweeper.nearby_mines for it
Reveal ==
    \E cell \in Cells :
        /\ cell \notin board
        /\ cell \notin moves_made
        /\ add_knowledge(cell, nearby_mines(cell))

Next ==
    \/ Reveal
    \/ WhileTest
    \/ Pass
    \/ make_safe_move
    \/ make_random_move

Spec == Init /\ [][Next]_vars

\* the observations of a game alone, without the move queries; the loop of
\* add_knowledge runs without suspension once entered
NextObs ==
    \/ Reveal
    \/ WhileTest
    \/ Pass

FairSpec == Init /\ [][NextObs]_vars /\ WF_vars(Propagate)

\* the solver alone, driven through its whole interface with any in-bounds
\* cell and any count between 0 and the number of in-bounds neighbours
InitAPI ==
    /\ InitSolver
    /\ board = {}

Observe ==
    \E cell \in Cells :
        \E count \in 0 .. Cardinality(Neighbours(cell)) :
            /\ ncalls < MaxCalls
            /\ add_knowledge(cell, count)

CallMarkMine == \E cell \in Cells : ncalls < MaxCalls /\ mark_mine(cell)

CallMarkSafe == \E cell \in Cells : ncalls < MaxCalls /\ mark_safe(cell)

NextAPI ==
    \/ Observe
    \/ CallMarkMine
    \/ CallMarkSafe
    \/ WhileTest
    \/ Pass
    \/ make_safe_move
    \/ make_random_move

SpecAPI == InitAPI /\ [][NextAPI]_vars

\* observations alone, with any in-bounds cell and any count between 0 and
\* the number of in-bounds neighbours
NextObserve ==
    \/ Observe
    \/ WhileTest
    \/ Pass

SpecObserve == InitAPI /\ [][NextObserve]_vars

\* ------------------------------------------------------------ properties
Returned == pc = "idle" /\ call.op = "add_knowledge"

\* the in-bounds neighbours of the reported cell that were neither in safes
\* nor in mines when the latest call was made
UnresolvedAtCall == (Neighbours(call.cell) \ call.safes0) \ call.mines0

\* C1: every add_knowledge call of a game (non-mine cells, each reported once
\* with its true count) returns: the loop, once entered, reaches a pass
\* that changes nothing.
C1_AddKnowledgeTerminates == (pc # "idle") ~> (pc = "idle")

\* C2: deductions are sound: after every call of a game every cell in mines
\* is a mine of the layout and no cell in safes is one.
C2_Sound == (pc = "idle") => (mines \subseteq board /\ safes \cap board = {})

\* C3: after any add_knowledge call of a game, safes and mines are disjoint.
C3_Disjoint == Returned => (safes \cap mines = {})

\* C4: in every state reachable through the solver's interface, moves_made is
\* a subset of safes.
C4_MovesMadeSafe == moves_made \subseteq safes

C4_Witness ==
    /\ call.op = "mark_mine"
    /\ call.cell \in moves_made
    /\ knowledge # << >>

\* C5: make_safe_move returns a cell of safes - moves_made when that set is
\* not empty, returns None exactly when it is empty, and changes none of
\* moves_made, safes, mines, knowledge.
C5_SafeMove ==
    [][ call'.op = "make_safe_move" =>
          /\ (ret' = None) <=> (safes \ moves_made = {})
          /\ (ret' # None) => (ret' \in safes \ moves_made)
          /\ UNCHANGED solver ]_vars

C5_Witness ==
    /\ call.op = "make_safe_move"
    /\ ret \in safes \ moves_made
    /\ moves_made # {}
    /\ mines # {}

\* C6: make_random_move returns an in-bounds cell outside moves_made and
\* mines, or None; None exactly when every cell is in moves_made or mines;
\* and it changes no solver state.
C6_RandomMove ==
    [][ call'.op = "make_random_move" =>
          LET free == { c \in Cells : c \notin moves_made /\ c \notin mines }
          IN  /\ (ret' = None) <=> (free = {})
              /\ (ret' # None) => (ret' \in free)
              /\ UNCHANGED solver ]_vars

C6_Witness ==
    /\ call.op = "make_random_move"
    /\ ret # None
    /\ ret \notin moves_made \cup mines
    /\ moves_made # {}
    /\ mines # {}

\* C7: for every total mine count T, the cells make_random_move chooses from
\* are exactly the cells of minimal risk, the risk being computed from the
\* baseline (T - |mines|) / |remaining| and the sentences' densities.
C7_MinimalRisk ==
    \A T \in 0 .. Cardinality(Cells) :
        (call.op = "make_random_move" /\ ret # None) =>
            /\ ret \in safest_moves(T, moves_made, mines, knowledge)
            /\ call.choices = safest_moves(T, moves_made, mines, knowledge)

\* C8: when add_knowledge has returned, for any two sentences A, B of the
\* knowledge base with A.cells a strict subset of B.cells, in either order,
\* the sentence (B.cells - A.cells, B.count - A.count) is in the knowledge
\* base.
C8_SubsetClosed ==
    Returned =>
        \A A \in Range(knowledge) : \A B \in Range(knowledge) :
            (A.cells \subseteq B.cells /\ A.cells # B.cells) =>
                Sentence(B.cells \ A.cells, B.count - A.count) \in Range(knowledge)

C10_AllSafe ==
    /\ (Returned /\ call.count = 0)
          => (Neighbours(call.cell) \ call.mines0) \subseteq safes
    /\ (/\ Returned
        /\ height = 1 /\ width = 3
        /\ ncalls = 1
        /\ call.cell = <<0, 1>> /\ call.count = 0)
          => ({<<0, 0>>, <<0, 2>>} \subseteq safes /\ mines = {})

C10_Witness ==
    /\ Returned
    /\ call.count = 0
    /\ Cardinality(UnresolvedAtCall) >= 2
    /\ call.safes0 # {}
    /\ UnresolvedAtCall \subseteq safes

\* C11: the sentence add_knowledge builds has as cells the neighbours of the
\* reported cell that are neither in safes nor in mines, and as count the
\* reported count minus the number of neighbours already in mines.
C11_SentenceBuilt ==
    (call.op = "add_knowledge") =>
        call.sent = Sentence(UnresolvedAtCall,
                             call.count - Cardinality(Neighbours(call.cell) \cap call.mines0))

\* C12: when an add_knowledge call of a game has returned, every sentence of
\* the knowledge base has count <= |cells|.
C12_CountAtMostCells ==
    Returned => \A s \in Range(knowledge) : s.count <= Cardinality(s.cells)

\* C13: for any sequence of add_knowledge calls with in-bounds cells and counts
\* between 0 and the number of in-bounds neighbours, every sentence of the
\* knowledge base has count >= 0, during and after propagation.
C13_NoNegativeCount == \A s \in Range(knowledge) : s.count >= 0

\* C14: during one add_knowledge call, subset inference never appends the
\* same sentence twice: the sentences a pass appends are pairwise different
\* and none of them was appended by an earlier pass of the call.
C14_NoSentenceAppendedTwice ==
    [][ (pc = "pass") =>
          LET added == PassOf(Here).added
          IN  /\ Cardinality(Range(added)) = Len(added)
              /\ Range(added) \cap inferred = {} ]_vars

\* C15: when add_knowledge has returned, direct resolution is exhausted: for
\* every sentence of the knowledge base, the cells of its known_mines() are in
\* mines and the cells of its known_safes() are in safes.
C15_ResolutionExhausted ==
    Returned =>
        \A s \in Range(knowledge) :
            /\ (Cardinality(s.cells) = s.count /\ s.count # 0) => s.cells \subseteq mines
            /\ (s.count = 0) => s.cells \subseteq safes

C15_Witness ==
    /\ Returned
    /\ knowledge # << >>
    /\ mines # call.mines0

\* C16: when add_knowledge has returned, no sentence of the knowledge base has
\* an empty cell set, also when the reported cell had no unresolved neighbour
\* and when subset inference derived an empty difference.
C16_NoEmptySentence ==
    Returned => \A s \in Range(knowledge) : s.cells # {}

\* a call that returned although subset inference had derived an empty
\* difference during it
C16_Witness ==
    /\ Returned
    /\ \E s \in inferred : s.cells = {}

\* C17: in the state in which add_knowledge returns, one more pass of the loop
\* changes neither safes, mines nor the knowledge base.
C17_FixedPoint ==
    Returned =>
        LET r == PassOf(Here)
        IN  /\ r.safes = safes
            /\ r.mines = mines
            /\ r.knowledge = knowledge

C17_Witness ==
    /\ Returned
    /\ Len(knowledge) >= 2
    /\ inferred # {}

\* C18: mark_mine(cell) and mark_safe(cell) are idempotent: in the state a
\* call of either leaves, and from any solver state for any cell, applying
\* the operation a second time gives the mines, safes and sentences that
\* applying it once gives.
C18_MarksIdempotent ==
    /\ (call.op = "mark_mine") => AI_mark_mine(Here, call.cell) = Here
    /\ (call.op = "mark_safe") => AI_mark_safe(Here, call.cell) = Here
    /\ \A c \in Cells :
          /\ AI_mark_mine(AI_mark_mine(Here, c), c) = AI_mark_mine(Here, c)
          /\ AI_mark_safe(AI_mark_safe(Here, c), c) = AI_mark_safe(Here, c)

\* mark_mine has just been applied to an unresolved neighbour of a reported
\* cell, and a sentence with a positive count is left
C18_Witness ==
    /\ call.op = "mark_mine"
    /\ call.cell \notin call.mines0 \cup call.safes0
    /\ \E m \in moves_made : call.cell \in Neighbours(m)
    /\ \E s \in Range(knowledge) : s.count > 0

\* C19: when add_knowledge has returned, the cell set of every sentence of the
\* knowledge base is disjoint from safes and from mines.
C19_NoResolvedCell ==
    Returned =>
        \A s \in Range(knowledge) :
            s.cells \cap (safes \cup mines) = {}

C19_Witness ==
    /\ Returned
    /\ knowledge # << >>
    /\ mines # {}
    /\ safes # moves_made

\* C20: no step of any operation, nor of the propagation loop, removes a cell
\* from moves_made, safes or mines.
C20_FactsOnlyGrow ==
    [][ /\ moves_made \subseteq moves_made'
        /\ safes \subseteq safes'
        /\ mines \subseteq mines' ]_vars

\* a pass of the loop has extended mines in a call made after an earlier
\* call had put a cell in safes
C20_Witness ==
    /\ pc = "while"
    /\ call.op = "add_knowledge"
    /\ call.safes0 # {}
    /\ mines # call.mines0

====
